---- MODULE Spec2Model ----
(***************************************************************************)
(* Model of convert-prototypes-to-json.py: one run of main(), which        *)
(* checks that prototypes.pkl exists, unpickles it, converts the           *)
(* 'prototypes' entry to plain lists, writes prototypes.json next to the   *)
(* script, reports the shape, re-reads that file and writes it again into  *)
(* the model cache directory.                                              *)
(*                                                                         *)
(* Python values are records [t, a, s]: t is the runtime type, a the       *)
(* literal of an atom, s the elements of a container.  File contents are   *)
(* sequences of JSON tokens [k, a], whitespace included.                   *)
(***************************************************************************)
EXTENDS Integers, Sequences, FiniteSets, TLC

\* ------------------------------------------------------------------ bounds
MaxRows == 2
MaxCols == 2

\* ------------------------------------------------------------ Python values
V(t, a, s) == [t |-> t, a |-> a, s |-> s]

PyNone == V("none", "", <<>>)
PyObj == V("object", "", <<>>)
PyInt(lit) == V("int", lit, <<>>)
PyFloat(lit) == V("float", lit, <<>>)
PyStr(lit) == V("str", lit, <<>>)
PyList(s) == V("list", "", s)
PyTuple(s) == V("tuple", "", s)
Pair(key, val) == V("pair", key, <<val>>)
PyDict(pairs) == V("dict", "", pairs)
Unset == V("unset", "", <<>>)

Lits == <<"1.0", "2.0", "3.0", "4.0", "5.0", "6.0", "7.0", "8.0", "9.0">>
Lit(n) == Lits[((n - 1) % Len(Lits)) + 1]

\* an r x c table whose containers have type ct and whose cells have type et
Table(ct, et, r, c) ==
    V(ct, "", [i \in 1..r |-> V(ct, "", [j \in 1..c |-> V(et, Lit((i - 1) * c + j), <<>>)])])

\* 'key' in d
dict_contains(d, key) == \E i \in 1..Len(d.s) : d.s[i].a = key

\* d.get(key, default)
dict_get(d, key, default) ==
    IF dict_contains(d, key)
    THEN LET i == CHOOSE i \in 1..Len(d.s) : d.s[i].a = key IN d.s[i].s[1]
    ELSE default

\* hasattr(v, 'numpy'): torch tensors
hasattr_numpy(v) == v.t \in {"tensor", "tensor_grad", "tensor0d"}

\* hasattr(v, 'tolist'): torch tensors and numpy arrays
hasattr_tolist(v) == v.t \in {"tensor", "tensor_grad", "tensor0d", "ndarray", "ndarray0d"}

\* tensor.numpy(): a numpy view of the same data; raises for a tensor that
\* requires grad
RECURSIVE as_ndarray(_)
as_ndarray(v) ==
    CASE v.t = "tensor" -> V("ndarray", "", [i \in 1..Len(v.s) |-> as_ndarray(v.s[i])])
      [] v.t = "tensor0d" -> V("ndarray0d", v.a, <<>>)
      [] OTHER -> v

numpy(v) ==
    IF v.t = "tensor_grad"
    THEN [ok |-> FALSE, val |-> Unset]
    ELSE [ok |-> TRUE, val |-> as_ndarray(v)]

\* array.tolist(): nested plain lists of native numbers; a 0-d array becomes
\* a bare number
RECURSIVE tolist(_)
tolist(v) ==
    CASE v.t \in {"tensor", "tensor_grad", "ndarray"} ->
            PyList([i \in 1..Len(v.s) |-> tolist(v.s[i])])
      [] v.t \in {"tensor0d", "ndarray0d", "f32", "f64"} -> PyFloat(v.a)
      [] OTHER -> v

\* list(v): a new list of the same elements; TypeError when v is not iterable
list(v) ==
    IF v.t \in {"list", "tuple"}
    THEN [ok |-> TRUE, val |-> PyList(v.s)]
    ELSE [ok |-> FALSE, val |-> Unset]

\* len(v): defined for the sized types
has_len(v) == v.t \in {"list", "tuple", "dict", "str"}

\* ------------------------------------------------------------------- JSON
Tok(k, a) == [k |-> k, a |-> a]
LBRACK == Tok("punct", "[")
RBRACK == Tok("punct", "]")
LBRACE == Tok("punct", "{")
RBRACE == Tok("punct", "}")
COMMA == Tok("punct", ",")
COLON == Tok("punct", ":")
SPACE == Tok("ws", " ")
NEWLINE == Tok("ws", "\n")

\* the encoder's newline followed by indent * level spaces
newline_indent(indent, level) == <<NEWLINE>> \o [i \in 1..(indent * level) |-> SPACE]

\* the values the JSON encoder accepts; anything else raises TypeError
RECURSIVE encodable(_)
encodable(v) ==
    CASE v.t \in {"none", "float", "int", "str"} -> TRUE
      [] v.t \in {"list", "tuple", "dict", "pair"} -> \A i \in 1..Len(v.s) : encodable(v.s[i])
      [] OTHER -> FALSE

\* the chunks the encoder yields for v, in order, up to the first value it
\* rejects
RECURSIVE chunks(_, _, _), chunks_items(_, _, _, _)
chunks(v, indent, level) ==
    CASE v.t = "none" -> <<Tok("null", "null")>>
      [] v.t = "float" -> <<Tok("float", v.a)>>
      [] v.t = "int" -> <<Tok("int", v.a)>>
      [] v.t = "str" -> <<Tok("str", v.a)>>
      [] v.t \in {"list", "tuple"} ->
            IF v.s = <<>>
            THEN <<LBRACK, RBRACK>>
            ELSE <<LBRACK>> \o newline_indent(indent, level + 1)
                 \o chunks_items(v.s, indent, level + 1, 1)
                 \o (IF encodable(v) THEN newline_indent(indent, level) \o <<RBRACK>> ELSE <<>>)
      [] v.t = "dict" ->
            IF v.s = <<>>
            THEN <<LBRACE, RBRACE>>
            ELSE <<LBRACE>> \o newline_indent(indent, level + 1)
                 \o chunks_items(v.s, indent, level + 1, 1)
                 \o (IF encodable(v) THEN newline_indent(indent, level) \o <<RBRACE>> ELSE <<>>)
      [] v.t = "pair" -> <<Tok("str", v.a), COLON, SPACE>> \o chunks(v.s[1], indent, level)
      [] OTHER -> <<>>

chunks_items(s, indent, level, i) ==
    IF i > Len(s)
    THEN <<>>
    ELSE (IF i = 1 THEN <<>> ELSE <<COMMA>> \o newline_indent(indent, level))
         \o chunks(s[i], indent, level)
         \o (IF encodable(s[i]) THEN chunks_items(s, indent, level, i + 1) ELSE <<>>)

\* json.dump(v, f, indent=indent): the chunks reach the file as they are
\* produced, so a value the encoder rejects leaves the chunks before it.
\* Result: [ok, out].
iterencode(v, indent, level) == [ok |-> encodable(v), out |-> chunks(v, indent, level)]

\* json.load(f): whitespace is skipped, arrays become lists, objects dicts.
\* Result: [ok, val, rest].
ParseFail == [ok |-> FALSE, val |-> Unset, rest |-> <<>>]

skip_ws(ts) == SelectSeq(ts, LAMBDA t : t.k # "ws")

\* In the three operators below a result that is used several times is bound
\* by r \in {...}, which evaluates it once.
RECURSIVE parse_value(_), parse_array(_, _), parse_object(_, _)
parse_value(ts) ==
    IF ts = <<>>
    THEN ParseFail
    ELSE LET h == Head(ts) IN
         CASE h.k = "null" -> [ok |-> TRUE, val |-> PyNone, rest |-> Tail(ts)]
           [] h.k = "float" -> [ok |-> TRUE, val |-> PyFloat(h.a), rest |-> Tail(ts)]
           [] h.k = "int" -> [ok |-> TRUE, val |-> PyInt(h.a), rest |-> Tail(ts)]
           [] h.k = "str" -> [ok |-> TRUE, val |-> PyStr(h.a), rest |-> Tail(ts)]
           [] h = LBRACK ->
                IF Len(ts) >= 2 /\ ts[2] = RBRACK
                THEN [ok |-> TRUE, val |-> PyList(<<>>), rest |-> SubSeq(ts, 3, Len(ts))]
                ELSE parse_array(Tail(ts), <<>>)
           [] h = LBRACE ->
                IF Len(ts) >= 2 /\ ts[2] = RBRACE
                THEN [ok |-> TRUE, val |-> PyDict(<<>>), rest |-> SubSeq(ts, 3, Len(ts))]
                ELSE parse_object(Tail(ts), <<>>)
           [] OTHER -> ParseFail

\* the elements of an array after '[' or ',', acc holding those already read
parse_array(ts, acc) ==
    CHOOSE res \in
        {IF ~r.ok \/ r.rest = <<>>
         THEN ParseFail
         ELSE IF Head(r.rest) = COMMA
              THEN parse_array(Tail(r.rest), Append(acc, r.val))
              ELSE IF Head(r.rest) = RBRACK
                   THEN [ok |-> TRUE, val |-> PyList(Append(acc, r.val)), rest |-> Tail(r.rest)]
                   ELSE ParseFail
         : r \in {parse_value(ts)}} : TRUE

\* the members of an object after '{' or ',', acc holding those already read
parse_object(ts, acc) ==
    IF Len(ts) < 3 \/ ts[1].k # "str" \/ ts[2] # COLON
    THEN ParseFail
    ELSE CHOOSE res \in
            {IF ~r.ok \/ r.rest = <<>>
             THEN ParseFail
             ELSE IF Head(r.rest) = COMMA
                  THEN parse_object(Tail(r.rest), Append(acc, Pair(ts[1].a, r.val)))
                  ELSE IF Head(r.rest) = RBRACE
                       THEN [ok |-> TRUE, val |-> PyDict(Append(acc, Pair(ts[1].a, r.val))),
                             rest |-> Tail(r.rest)]
                       ELSE ParseFail
             : r \in {parse_value(SubSeq(ts, 3, Len(ts)))}} : TRUE

json_load(ts) ==
    CHOOSE res \in
        {IF r.ok /\ r.rest = <<>>
         THEN [ok |-> TRUE, val |-> r.val]
         ELSE [ok |-> FALSE, val |-> Unset]
         : r \in {parse_value(skip_ws(ts))}} : TRUE

\* ------------------------------------------------- the steps of the script
\* variant: a value that cannot be converted falls back to the empty list
convert_prototypes_lenient(d) ==
    IF dict_contains(d, "prototypes")
    THEN LET p == dict_get(d, "prototypes", Unset) IN
         IF hasattr_numpy(p)
         THEN LET n == numpy(p) IN
              [ok |-> n.ok, branch |-> "numpy",
               val |-> IF n.ok THEN tolist(n.val) ELSE Unset]
         ELSE IF hasattr_tolist(p)
              THEN [ok |-> TRUE, branch |-> "tolist", val |-> tolist(p)]
              ELSE LET l == list(p) IN
                   [ok |-> TRUE, branch |-> "list",
                    val |-> IF l.ok THEN l.val ELSE PyList(<<>>)]
    ELSE [ok |-> TRUE, branch |-> "absent", val |-> PyList(<<>>)]

\* convert_pickle_to_json lines 23-32: the value of 'prototypes'.
\* Result: [ok, branch, val]; ok = FALSE when the chosen branch raises.
convert_prototypes(d) ==
    IF dict_contains(d, "prototypes")
    THEN LET p == dict_get(d, "prototypes", Unset) IN
         IF hasattr_numpy(p)
         THEN LET n == numpy(p) IN
              [ok |-> n.ok, branch |-> "numpy",
               val |-> IF n.ok THEN tolist(n.val) ELSE Unset]
         ELSE IF hasattr_tolist(p)
              THEN [ok |-> TRUE, branch |-> "tolist", val |-> tolist(p)]
              ELSE LET l == list(p) IN
                   [ok |-> l.ok, branch |-> "list", val |-> l.val]
    ELSE [ok |-> TRUE, branch |-> "absent", val |-> PyList(<<>>)]

DefaultClassNames == PyList(<<PyStr("failure"), PyStr("success")>>)
DefaultDefectIdx == PyInt("0")

\* variant: both defaults are taken as soon as class_names is missing
make_json_data_coupled(d, protos) ==
    IF dict_contains(d, "class_names")
    THEN PyDict(<<Pair("prototypes", protos),
                  Pair("class_names", dict_get(d, "class_names", DefaultClassNames)),
                  Pair("defect_idx", dict_get(d, "defect_idx", DefaultDefectIdx))>>)
    ELSE PyDict(<<Pair("prototypes", protos),
                  Pair("class_names", DefaultClassNames),
                  Pair("defect_idx", DefaultDefectIdx)>>)

\* lines 35-39: the dict that is serialised
make_json_data(d, protos) ==
    PyDict(<<Pair("prototypes", protos),
             Pair("class_names", dict_get(d, "class_names", DefaultClassNames)),
             Pair("defect_idx", dict_get(d, "defect_idx", DefaultDefectIdx))>>)

\* variant: the copy is written with another indentation
dump_secondary_indent4(v) == iterencode(v, 4, 0)

\* line 43 and line 79: json.dump(json_data, f, indent=2)
dump_primary(v) == iterencode(v, 2, 0)
dump_secondary(v) == iterencode(v, 2, 0)

\* variant: the report never raises
shape_report_guarded(p) == TRUE

\* line 46: len(prototypes) and len(prototypes[0]) both evaluate
shape_report_ok(p) == has_len(p) /\ Len(p.s) > 0 /\ has_len(p.s[1])

\* --------------------------------------------------------- the input space
ProtoKinds == {<<"tensor", "f32">>, <<"ndarray", "f64">>, <<"list", "float">>, <<"tuple", "float">>}

ProtoValues ==
    {Table(k[1], k[2], r, c) : k \in ProtoKinds, r \in 0..MaxRows, c \in 0..MaxCols}
    \cup {V("tensor_grad", "", Table("tensor", "f32", 2, 2).s),  \* requires_grad tensor
          V("tensor0d", "1.0", <<>>),                            \* 0-d tensor
          PyList(<<PyFloat("1.0"), PyFloat("2.0")>>),            \* flat list
          PyList(<<PyList(<<PyFloat("1.0")>>), PyList(<<PyFloat("2.0"), PyFloat("3.0")>>)>>),
          PyList(<<PyList(<<PyObj>>)>>),                         \* not JSON serialisable
          PyInt("7"),                                            \* not iterable
          PyNone}

ClassNameValues ==
    {PyList(<<PyStr("bad"), PyStr("good")>>), PyTuple(<<PyStr("bad"), PyStr("good")>>),
     PyNone, PyObj}

DefectIdxValues == {PyInt("0"), PyInt("1")}

\* Unset stands for "key not in the pickled dict"
MakeDict(p, c, d) ==
    PyDict(SelectSeq(<<Pair("prototypes", p), Pair("class_names", c), Pair("defect_idx", d)>>,
                     LAMBDA x : x.s[1] # Unset))

Sources ==
    {[exists |-> FALSE, decodes |-> FALSE, obj |-> Unset],       \* no prototypes.pkl
     [exists |-> TRUE, decodes |-> FALSE, obj |-> Unset],        \* not a pickle
     [exists |-> TRUE, decodes |-> TRUE, obj |-> PyList(<<>>)]}  \* a pickle of a list
    \cup {[exists |-> TRUE, decodes |-> TRUE, obj |-> MakeDict(p, c, d)] :
            p \in ProtoValues \cup {Unset},
            c \in ClassNameValues \cup {Unset},
            d \in DefectIdxValues \cup {Unset}}

NoFile == [exists |-> FALSE, bytes |-> <<>>]
OldFile == [exists |-> TRUE, bytes |-> <<Tok("str", "old")>>]
File(bytes) == [exists |-> TRUE, bytes |-> bytes]

\* ------------------------------------------------------------------- state
VARIABLES
    pc,           \* position in main() / convert_pickle_to_json()
    src,          \* prototypes.pkl as found on disk
    fs0,          \* the two destination files before the run
    pri,          \* <scriptDir>/prototypes.json
    sec,          \* <repo>/model/prototypes/cache/prototypes.json
    open,         \* files currently open
    data,         \* convert_pickle_to_json: data
    prototypes,   \* convert_pickle_to_json: prototypes
    branch,       \* which branch of lines 23-32 produced prototypes
    json_data,    \* convert_pickle_to_json: json_data
    reread,       \* main: json_data (line 76)
    failure,      \* the failure that ended the run, "none" if none
    diag,         \* the diagnostic printed, "none" if none
    exit_status,  \* process exit status, -1 while running
    steps,        \* the steps started, in order
    completed     \* the steps that ran to their end without an error

vars == <<pc, src, fs0, pri, sec, open, data, prototypes, branch, json_data, reread,
          failure, diag, exit_status, steps, completed>>

Init ==
    /\ pc = "start"
    /\ src \in Sources
    /\ fs0 \in [pri : {NoFile, OldFile}, sec : {NoFile, OldFile}]
    /\ pri = fs0.pri
    /\ sec = fs0.sec
    /\ open = {}
    /\ data = Unset
    /\ prototypes = Unset
    /\ branch = "none"
    /\ json_data = Unset
    /\ reread = Unset
    /\ failure = "none"
    /\ diag = "none"
    /\ exit_status = -1
    /\ steps = <<>>
    /\ completed = {}

\* variant: the file is closed only when the block ends normally
with_exit_leak(files, f) == IF failure = "none" THEN files \ {f} ELSE files

\* leaving a 'with open(...) as f' block closes f, also when the block raised
with_exit(files, f) == files \ {f}

Start(step) == steps' = Append(steps, step)
Complete(step) == completed' = completed \cup {step}
Fail(kind, handler) == failure' = kind /\ pc' = handler

\* variant: the missing file is reported but the run goes on
CheckExistsNoExit ==
    /\ pc = "start"
    /\ Start("exists")
    /\ pc' = "open_src"
    /\ IF src.exists
       THEN Complete("exists") /\ UNCHANGED diag
       ELSE diag' = "not_found" /\ UNCHANGED completed
    /\ UNCHANGED <<src, fs0, pri, sec, open, data, prototypes, branch, json_data, reread,
                   failure, exit_status>>

\* main lines 64-66
CheckExists ==
    /\ pc = "start"
    /\ Start("exists")
    /\ IF src.exists
       THEN /\ pc' = "open_src"
            /\ Complete("exists")
            /\ UNCHANGED <<failure, diag, exit_status>>
       ELSE /\ pc' = "done"
            /\ failure' = "missing_input"
            /\ diag' = "not_found"
            /\ exit_status' = 1
            /\ UNCHANGED completed
    /\ UNCHANGED <<src, fs0, pri, sec, open, data, prototypes, branch, json_data, reread>>

\* line 16: open(pickle_path, 'rb')
OpenSource ==
    /\ pc = "open_src"
    /\ Start("decode")
    /\ \E io_error \in BOOLEAN :
         IF io_error \/ ~src.exists
         THEN Fail("OSError", "except") /\ UNCHANGED open
         ELSE pc' = "load" /\ open' = open \cup {"source"} /\ UNCHANGED failure
    /\ UNCHANGED <<src, fs0, pri, sec, data, prototypes, branch, json_data, reread,
                   diag, exit_status, completed>>

\* line 17: pickle.load(f)
PickleLoad ==
    /\ pc = "load"
    /\ pc' = "close_src"
    /\ IF src.decodes
       THEN data' = src.obj /\ UNCHANGED failure
       ELSE failure' = "UnpicklingError" /\ UNCHANGED data
    /\ UNCHANGED <<src, fs0, pri, sec, open, prototypes, branch, json_data, reread,
                   diag, exit_status, steps, completed>>

\* end of the with block of lines 16-17
CloseSource ==
    /\ pc = "close_src"
    /\ open' = with_exit(open, "source")
    /\ pc' = IF failure = "none" THEN "keys" ELSE "except"
    /\ UNCHANGED <<src, fs0, pri, sec, data, prototypes, branch, json_data, reread,
                   failure, diag, exit_status, steps, completed>>

\* line 20: data.keys()
ListKeys ==
    /\ pc = "keys"
    /\ IF data.t = "dict"
       THEN pc' = "convert" /\ Complete("decode") /\ UNCHANGED failure
       ELSE Fail("AttributeError", "except") /\ UNCHANGED completed
    /\ UNCHANGED <<src, fs0, pri, sec, open, data, prototypes, branch, json_data, reread,
                   diag, exit_status, steps>>

\* lines 23-39
Convert ==
    /\ pc = "convert"
    /\ Start("convert")
    /\ LET r == convert_prototypes(data) IN
       /\ branch' = r.branch
       /\ IF r.ok
          THEN /\ prototypes' = r.val
               /\ json_data' = make_json_data(data, r.val)
               /\ pc' = "open_pri"
               /\ Complete("convert")
               /\ UNCHANGED failure
          ELSE /\ Fail("TypeError", "except")
               /\ UNCHANGED <<prototypes, json_data, completed>>
    /\ UNCHANGED <<src, fs0, pri, sec, open, data, reread, diag, exit_status>>

\* line 42: open(json_path, 'w') creates or truncates the file
OpenPrimary ==
    /\ pc = "open_pri"
    /\ Start("write_primary")
    /\ \E io_error \in BOOLEAN :
         IF io_error
         THEN Fail("OSError", "except") /\ UNCHANGED <<open, pri>>
         ELSE /\ pc' = "dump_pri"
              /\ open' = open \cup {"primary_w"}
              /\ pri' = File(<<>>)
              /\ UNCHANGED failure
    /\ UNCHANGED <<src, fs0, sec, data, prototypes, branch, json_data, reread,
                   diag, exit_status, completed>>

\* line 43: json.dump(json_data, f, indent=2)
DumpPrimary ==
    /\ pc = "dump_pri"
    /\ pc' = "close_pri"
    /\ LET r == dump_primary(json_data) IN
       \E io_error \in BOOLEAN :
         IF io_error
         THEN /\ pri' = File(SubSeq(r.out, 1, Len(r.out) \div 2))
              /\ failure' = "OSError"
         ELSE /\ pri' = File(r.out)
              /\ failure' = IF r.ok THEN "none" ELSE "TypeError"
    /\ UNCHANGED <<src, fs0, sec, open, data, prototypes, branch, json_data, reread,
                   diag, exit_status, steps, completed>>

\* end of the with block of lines 42-43
ClosePrimary ==
    /\ pc = "close_pri"
    /\ open' = with_exit(open, "primary_w")
    /\ IF failure = "none"
       THEN pc' = "report" /\ Complete("write_primary")
       ELSE pc' = "except" /\ UNCHANGED completed
    /\ UNCHANGED <<src, fs0, pri, sec, data, prototypes, branch, json_data, reread,
                   failure, diag, exit_status, steps>>

\* lines 45-51: the report, then return to main (lines 72-73: mkdir of the
\* cache directory, which holds prototypes.pkl and so exists)
ShapeReport ==
    /\ pc = "report"
    /\ Start("report")
    /\ IF shape_report_ok(prototypes)
       THEN pc' = "open_reread" /\ Complete("report") /\ UNCHANGED failure
       ELSE Fail("IndexError", "except") /\ UNCHANGED completed
    /\ UNCHANGED <<src, fs0, pri, sec, open, data, prototypes, branch, json_data, reread,
                   diag, exit_status>>

\* variant: the handler prints and returns, main goes on to the copy
HandleExceptionFallThrough ==
    /\ pc = "except"
    /\ diag' = "error_converting"
    /\ pc' = "open_reread"
    /\ failure' = "none"
    /\ UNCHANGED <<src, fs0, pri, sec, open, data, prototypes, branch, json_data, reread,
                   exit_status, steps, completed>>

\* variant: the handler runs the conversion a second time before giving up
HandleExceptionRetry ==
    /\ pc = "except"
    /\ diag' = "error_converting"
    /\ IF Len(SelectSeq(steps, LAMBDA x : x = "decode")) < 2
       THEN pc' = "open_src" /\ failure' = "none" /\ UNCHANGED exit_status
       ELSE pc' = "done" /\ exit_status' = 1 /\ UNCHANGED failure
    /\ UNCHANGED <<src, fs0, pri, sec, open, data, prototypes, branch, json_data, reread,
                   steps, completed>>

\* lines 53-55: except Exception -> print, sys.exit(1)
HandleException ==
    /\ pc = "except"
    /\ diag' = "error_converting"
    /\ exit_status' = 1
    /\ pc' = "done"
    /\ UNCHANGED <<src, fs0, pri, sec, open, data, prototypes, branch, json_data, reread,
                   failure, steps, completed>>

\* line 75: open(json_path, 'r')
OpenReread ==
    /\ pc = "open_reread"
    /\ Start("reread")
    /\ \E io_error \in BOOLEAN :
         IF io_error \/ ~pri.exists
         THEN Fail("OSError", "uncaught") /\ UNCHANGED open
         ELSE pc' = "load_json" /\ open' = open \cup {"primary_r"} /\ UNCHANGED failure
    /\ UNCHANGED <<src, fs0, pri, sec, data, prototypes, branch, json_data, reread,
                   diag, exit_status, completed>>

\* line 76: json.load(f)
JsonLoad ==
    /\ pc = "load_json"
    /\ pc' = "close_reread"
    /\ LET r == json_load(pri.bytes) IN
       IF r.ok
       THEN reread' = r.val /\ UNCHANGED failure
       ELSE failure' = "JSONDecodeError" /\ UNCHANGED reread
    /\ UNCHANGED <<src, fs0, pri, sec, open, data, prototypes, branch, json_data,
                   diag, exit_status, steps, completed>>

\* end of the with block of lines 75-76
CloseReread ==
    /\ pc = "close_reread"
    /\ open' = with_exit(open, "primary_r")
    /\ IF failure = "none"
       THEN pc' = "open_sec" /\ Complete("reread")
       ELSE pc' = "uncaught" /\ UNCHANGED completed
    /\ UNCHANGED <<src, fs0, pri, sec, data, prototypes, branch, json_data, reread,
                   failure, diag, exit_status, steps>>

\* line 78: open(model_json_path, 'w')
OpenSecondary ==
    /\ pc = "open_sec"
    /\ Start("write_secondary")
    /\ \E io_error \in BOOLEAN :
         IF io_error
         THEN Fail("OSError", "uncaught") /\ UNCHANGED <<open, sec>>
         ELSE /\ pc' = "dump_sec"
              /\ open' = open \cup {"secondary_w"}
              /\ sec' = File(<<>>)
              /\ UNCHANGED failure
    /\ UNCHANGED <<src, fs0, pri, data, prototypes, branch, json_data, reread,
                   diag, exit_status, completed>>

\* line 79: json.dump(json_data, f, indent=2)
DumpSecondary ==
    /\ pc = "dump_sec"
    /\ pc' = "close_sec"
    /\ LET r == dump_secondary(reread) IN
       \E io_error \in BOOLEAN :
         IF io_error
         THEN /\ sec' = File(SubSeq(r.out, 1, Len(r.out) \div 2))
              /\ failure' = "OSError"
         ELSE /\ sec' = File(r.out)
              /\ failure' = IF r.ok THEN "none" ELSE "TypeError"
    /\ UNCHANGED <<src, fs0, pri, open, data, prototypes, branch, json_data, reread,
                   diag, exit_status, steps, completed>>

\* end of the with block of lines 78-79
CloseSecondary ==
    /\ pc = "close_sec"
    /\ open' = with_exit(open, "secondary_w")
    /\ IF failure = "none"
       THEN pc' = "finish" /\ Complete("write_secondary")
       ELSE pc' = "uncaught" /\ UNCHANGED completed
    /\ UNCHANGED <<src, fs0, pri, sec, data, prototypes, branch, json_data, reread,
                   failure, diag, exit_status, steps>>

\* line 81 and the end of main: the interpreter exits with status 0
Finish ==
    /\ pc = "finish"
    /\ exit_status' = 0
    /\ pc' = "done"
    /\ UNCHANGED <<src, fs0, pri, sec, open, data, prototypes, branch, json_data, reread,
                   failure, diag, steps, completed>>

\* variant: the exception is swallowed and the script ends normally
UncaughtSwallowed ==
    /\ pc = "uncaught"
    /\ diag' = "traceback"
    /\ exit_status' = 0
    /\ pc' = "done"
    /\ UNCHANGED <<src, fs0, pri, sec, open, data, prototypes, branch, json_data, reread,
                   failure, steps, completed>>

\* an exception raised in main (lines 75-79) reaches the interpreter, which
\* prints the traceback and exits with status 1
Uncaught ==
    /\ pc = "uncaught"
    /\ diag' = "traceback"
    /\ exit_status' = 1
    /\ pc' = "done"
    /\ UNCHANGED <<src, fs0, pri, sec, open, data, prototypes, branch, json_data, reread,
                   failure, steps, completed>>

Next ==
    \/ CheckExists
    \/ OpenSource
    \/ PickleLoad
    \/ CloseSource
    \/ ListKeys
    \/ Convert
    \/ OpenPrimary
    \/ DumpPrimary
    \/ ClosePrimary
    \/ ShapeReport
    \/ HandleException
    \/ OpenReread
    \/ JsonLoad
    \/ CloseReread
    \/ OpenSecondary
    \/ DumpSecondary
    \/ CloseSecondary
    \/ Finish
    \/ Uncaught

Spec == Init /\ [][Next]_vars

\* the interpreter runs the script to its end: every enabled step is taken
FairSpec == Spec /\ WF_vars(Next)

\* ----------------------------------------------------------- properties
Range(q) == {q[i] : i \in 1..Len(q)}

Terminated == pc = "done"

\* the entry of the pickled dict under key, Unset when the key is missing
SourceEntry(key) ==
    IF \E i \in 1..Len(src.obj.s) : src.obj.s[i].t = "pair" /\ src.obj.s[i].a = key
    THEN LET i == CHOOSE i \in 1..Len(src.obj.s) : src.obj.s[i].a = key IN src.obj.s[i].s[1]
    ELSE Unset

\* q is p with every container turned into a list and every number into a
\* native float
RECURSIVE PlainCopyOf(_, _)
PlainCopyOf(q, p) ==
    IF p.t \in {"f32", "f64", "float", "tensor0d", "ndarray0d"}
    THEN q = PyFloat(p.a)
    ELSE /\ q.t = "list"
         /\ Len(q.s) = Len(p.s)
         /\ \A i \in 1..Len(p.s) : PlainCopyOf(q.s[i], p.s[i])

\* the value a JSON reader sees for v: tuples are arrays
RECURSIVE JsonView(_)
JsonView(v) ==
    IF v.t \in {"list", "tuple"}
    THEN PyList([i \in 1..Len(v.s) |-> JsonView(v.s[i])])
    ELSE v

\* {"prototypes": [], "class_names": ["failure", "success"], "defect_idx": 0}
\* printed with two-space indentation
EmptyMappingBytes ==
    <<LBRACE, NEWLINE, SPACE, SPACE, Tok("str", "prototypes"), COLON, SPACE, LBRACK, RBRACK,
      COMMA, NEWLINE, SPACE, SPACE, Tok("str", "class_names"), COLON, SPACE, LBRACK,
      NEWLINE, SPACE, SPACE, SPACE, SPACE, Tok("str", "failure"),
      COMMA, NEWLINE, SPACE, SPACE, SPACE, SPACE, Tok("str", "success"),
      NEWLINE, SPACE, SPACE, RBRACK,
      COMMA, NEWLINE, SPACE, SPACE, Tok("str", "defect_idx"), COLON, SPACE, Tok("int", "0"),
      NEWLINE, RBRACE>>

\* C1: when prototypes.pkl does not exist the run ends with exit status 1,
\* neither destination file is created or modified, and nothing beyond the
\* existence check is executed.
C1_MissingSourceWritesNothing ==
    ~src.exists =>
        /\ pri = fs0.pri
        /\ sec = fs0.sec
        /\ pc \in {"start", "done"}
        /\ Range(steps) \subseteq {"exists"}
        /\ data = Unset /\ prototypes = Unset /\ json_data = Unset
        /\ Terminated => exit_status = 1

C1_Witness ==
    /\ ~src.exists
    /\ Terminated
    /\ exit_status = 1
    /\ diag = "not_found"
    /\ fs0.pri = OldFile /\ pri = OldFile
    /\ fs0.sec = NoFile /\ sec = NoFile

\* C2: after a run that ends with exit status 0 both destination files
\* exist, hold the same bytes, and the secondary holds the primary re-read
\* and serialised again with two-space indentation.
C2_OutputsIdentical ==
    (Terminated /\ exit_status = 0) =>
        /\ pri.exists /\ sec.exists
        /\ pri.bytes = sec.bytes
        /\ json_load(pri.bytes).ok
        /\ sec.bytes = iterencode(json_load(pri.bytes).val, 2, 0).out

\* a successful run whose in-memory json_data (a tuple of class names) is not
\* the value that was read back
C2_Witness ==
    /\ Terminated
    /\ exit_status = 0
    /\ reread # json_data
    /\ Len(prototypes.s) = 2
    /\ pri.bytes = sec.bytes

\* C3: a source that unpickles to {} makes the run complete and leaves
\* {"prototypes": [], "class_names": ["failure","success"], "defect_idx": 0}
\* at both destinations (no I/O error assumed).
C3_EmptyMappingCompletes ==
    (Terminated /\ src.decodes /\ src.obj = PyDict(<<>>) /\ failure # "OSError") =>
        /\ exit_status = 0
        /\ pri = File(EmptyMappingBytes)
        /\ sec = File(EmptyMappingBytes)

\* C4: the exit status is 0 exactly when the existence check, the
\* decode/convert, the primary write, the re-read and the secondary write all
\* completed without error; every failure ends the run with status 1 after a
\* diagnostic was printed.
PipelineSteps == {"exists", "decode", "convert", "write_primary", "reread", "write_secondary"}

C4_ExitStatus ==
    Terminated =>
        /\ exit_status \in {0, 1}
        /\ exit_status = 0 <=> PipelineSteps \subseteq completed
        /\ exit_status = 0 <=> failure = "none"
        /\ exit_status = 1 => diag # "none"

\* the secondary copy failed with a write error
C4_Witness ==
    /\ Terminated
    /\ exit_status = 1
    /\ failure = "OSError"
    /\ diag = "traceback"
    /\ steps[Len(steps)] = "write_secondary"

\* C5: class_names of the output is the source's entry when the key is
\* present and ["failure", "success"] otherwise; defect_idx is the source's
\* entry when present and 0 otherwise; each default is independent of the
\* other key and of the prototypes key.  Checked on json_data and on the
\* primary file once it is written.
ExpectedClassNames ==
    IF SourceEntry("class_names") = Unset
    THEN PyList(<<PyStr("failure"), PyStr("success")>>)
    ELSE SourceEntry("class_names")

ExpectedDefectIdx ==
    IF SourceEntry("defect_idx") = Unset THEN PyInt("0") ELSE SourceEntry("defect_idx")

C5_MetadataDefaults ==
    /\ json_data # Unset =>
        /\ json_data.s[2] = Pair("class_names", ExpectedClassNames)
        /\ json_data.s[3] = Pair("defect_idx", ExpectedDefectIdx)
    /\ "write_primary" \in completed =>
        LET written == json_load(pri.bytes) IN
        /\ written.ok
        /\ written.val.s[2] = Pair("class_names", JsonView(ExpectedClassNames))
        /\ written.val.s[3] = Pair("defect_idx", JsonView(ExpectedDefectIdx))

\* class_names missing, defect_idx and prototypes present
C5_Witness ==
    /\ "write_primary" \in completed
    /\ SourceEntry("class_names") = Unset
    /\ SourceEntry("defect_idx") = PyInt("1")
    /\ SourceEntry("prototypes") # Unset
    /\ json_data.s[2].s[1] = PyList(<<PyStr("failure"), PyStr("success")>>)
    /\ json_data.s[3].s[1] = PyInt("1")

\* C6: the secondary file is touched only after the primary file has been
\* written completely and read back; a run never leaves the secondary
\* written without the primary.
C6_SecondaryAfterPrimary ==
    ("write_secondary" \in Range(steps) \/ sec # fs0.sec) =>
        /\ {"write_primary", "reread"} \subseteq completed
        /\ pri.exists
        /\ json_load(pri.bytes).ok
        /\ reread = json_load(pri.bytes).val

C6_Witness ==
    /\ pc = "close_sec"
    /\ sec # fs0.sec
    /\ "write_primary" \in completed
    /\ "reread" \in completed

\* C7: the run is a linear pipeline: the steps start in the fixed order,
\* each at most once, no step starts after a failure, and every run
\* terminates.
StepOrder == <<"exists", "decode", "convert", "write_primary", "report", "reread", "write_secondary">>
Rank(step) == CHOOSE i \in 1..Len(StepOrder) : StepOrder[i] = step

StepsInOrder ==
    /\ Range(steps) \subseteq Range(StepOrder)
    /\ \A i, j \in 1..Len(steps) : i < j => Rank(steps[i]) < Rank(steps[j])

C7_LinearPipeline ==
    /\ []StepsInOrder
    /\ [][failure # "none" => steps' = steps /\ failure' = failure]_vars
    /\ <>Terminated

\* a run that failed in the primary write and stopped there
C7_Witness ==
    /\ Terminated
    /\ failure = "TypeError"
    /\ steps = <<"exists", "decode", "convert", "write_primary">>

\* C8: at most one file is open at any time, no file is open when a step
\* begins or when a handler runs, and none is open at termination.
BetweenSteps ==
    {"start", "open_src", "keys", "convert", "open_pri", "report", "open_reread", "open_sec",
     "finish", "except", "uncaught", "done"}

C8_FilesClosed ==
    /\ Cardinality(open) <= 1
    /\ pc \in BetweenSteps => open = {}

\* the primary write raised inside its with block and the run has ended
C8_Witness ==
    /\ Terminated
    /\ failure = "TypeError"
    /\ steps[Len(steps)] = "write_primary"
    /\ pri.exists
    /\ open = {}

\* C9: prototypes is chosen by an ordered dispatch on the source entry:
\* missing key -> empty list; a value with 'numpy' -> numpy().tolist(), tried
\* before 'tolist'; a value with 'tolist' -> tolist(); anything else ->
\* list(); a value that none of these can convert fails the run with status 1
\* and is never replaced by the empty list.
C9_OrderedDispatch ==
    branch # "none" =>
        LET p == SourceEntry("prototypes")
            numpy_capable == p.t \in {"tensor", "tensor0d", "tensor_grad"}
            tolist_capable == p.t \in {"ndarray", "ndarray0d"}
            converted == prototypes # Unset
        IN  /\ p = Unset => (branch = "absent" /\ prototypes = PyList(<<>>))
            /\ (p # Unset /\ numpy_capable) =>
                    /\ branch = "numpy"
                    /\ converted <=> p.t # "tensor_grad"
                    /\ converted => PlainCopyOf(prototypes, p)
            /\ (p # Unset /\ tolist_capable) =>
                    (branch = "tolist" /\ converted /\ PlainCopyOf(prototypes, p))
            /\ (p # Unset /\ ~numpy_capable /\ ~tolist_capable) =>
                    /\ branch = "list"
                    /\ converted <=> p.t \in {"list", "tuple"}
                    /\ converted => prototypes = PyList(p.s)
            /\ ~converted =>
                    /\ pri = fs0.pri
                    /\ sec = fs0.sec
                    /\ exit_status # 0
                    /\ Terminated => exit_status = 1

\* a value that is not iterable ended the run
C9_Witness ==
    /\ Terminated
    /\ SourceEntry("prototypes") = PyInt("7")
    /\ branch = "list"
    /\ prototypes = Unset
    /\ exit_status = 1

\* C10: the shape report of line 46 runs inside the try block: a run ends
\* with status 0 only if prototypes is a non-empty sequence whose first
\* element has a length; otherwise the primary file is already written when
\* the report raises, the run ends with status 1 and the secondary file is
\* never written.
Reportable ==
    /\ prototypes.t = "list"
    /\ prototypes.s # <<>>
    /\ prototypes.s[1].t \in {"list", "tuple"}

C10_ShapeReportFailure ==
    /\ exit_status = 0 => Reportable
    /\ (prototypes # Unset /\ ~Reportable) =>
        /\ exit_status # 0
        /\ Terminated => exit_status = 1
        /\ sec = fs0.sec
        /\ Range(steps) \cap {"reread", "write_secondary"} = {}
        /\ "report" \in Range(steps) =>
              /\ "write_primary" \in completed
              /\ pri = File(iterencode(json_data, 2, 0).out)
              /\ failure = "IndexError"

\* prototypes is empty: primary written, status 1, no secondary
C10_Witness ==
    /\ Terminated
    /\ prototypes = PyList(<<>>)
    /\ failure = "IndexError"
    /\ "write_primary" \in completed
    /\ pri.exists
    /\ sec = NoFile
    /\ exit_status = 1

====
